---- MODULE Spec2Model ----
(***************************************************************************)
(* Model of src/lib/notion/client.ts: the cursor-pagination drains          *)
(* (getAllPosts, getAllBlocksByBlockId), the two module-level cache slots   *)
(* (postsCache, dbCache), the record normalizer (_buildPost) and the view   *)
(* functions computed over the cached collection.                           *)
(*                                                                         *)
(* Each async function is a sequence of atomic segments separated by its    *)
(* awaits.  A caller c is one logical request; pc[c] = "await" means its    *)
(* single pending remote request has been sent and not yet answered.        *)
(***************************************************************************)
EXTENDS Integers, Sequences, FiniteSets, TLC

VARIABLES
    remote,       \* the database's published records, as the pages the API serves
    children,     \* the child blocks of each block id, as the pages the API serves
    dbRaw,        \* the database object databases.retrieve answers with
    postsCache,   \* client.ts:30
    dbCache,      \* client.ts:31
    op,           \* op[c]: the exported function caller c is running
    arg,          \* arg[c]: its arguments
    pc,           \* pc[c]: "idle", "await", "done" (promise fulfilled), "failed" (rejected)
    cursor,       \* cursor[c]: params.start_cursor of the running drain
    results,      \* results[c]: the drain's accumulator
    attempts,     \* attempts[c]: failed attempts async-retry has counted so far
    ret,          \* ret[c]: the value the promise was fulfilled with
    reqLog,       \* history: the start cursors c's current call has requested, in order
    respLog,      \* history: the next_cursor of every has_more response c's call received
    hit,          \* history: c's current call was served from the cache
    fetchCount,   \* history: number of databases.query requests sent
    cacheWrites,  \* history: number of assignments to postsCache
    retrieveCount,\* history: number of databases.retrieve requests sent
    ncalls        \* number of calls started (bounds the run)

vars == <<remote, children, dbRaw, postsCache, dbCache, op, arg, pc, cursor, results,
          attempts, ret, reqLog, respLog, hit, fetchCount, cacheWrites, retrieveCount,
          ncalls>>

remoteVars == <<remote, children, dbRaw>>

--------------------------------------------------------------------------
(* Bounds of the model *)

NumCallers == 2
MaxCalls == 3
MaxPages == 3
MaxPageLen == 1

Callers == 1..NumCallers

\* the two callers of the specifications that hold the concurrency at two
TwoCallers == {c \in Callers : c <= 2}

--------------------------------------------------------------------------
(* JavaScript values: undefined, null, or a value *)

Undefined == [k |-> "undefined"]
Null == [k |-> "null"]
Some(v) == [k |-> "val", v |-> v]

\* x is neither undefined nor null
Present(x) == x.k = "val"

\* x?.f  and, for x known to be an object, x.f
Get(x, f) == IF Present(x) /\ f \in DOMAIN x.v THEN x.v[f] ELSE Undefined

\* truthiness of an optional object or array (objects and arrays are truthy)
TruthyObj(x) == Present(x)
\* truthiness of an optional number
TruthyNum(x) == Present(x) /\ x.v # 0
\* truthiness of an optional string
TruthyStr(x) == Present(x) /\ x.v # ""

\* the absent start_cursor of a drain's first request
NoCursor == 0

RECURSIVE Flatten(_)
\* Array.prototype.concat over the pages, in order
Flatten(pages) ==
    IF pages = <<>> THEN <<>> ELSE Head(pages) \o Flatten(Tail(pages))

RECURSIVE JoinPlain(_)
\* richText.map((t) => t.plain_text).join('')
JoinPlain(frags) ==
    IF frags = <<>> THEN "" ELSE Head(frags).plain_text \o JoinPlain(Tail(frags))

--------------------------------------------------------------------------
(* The record normalizer *)

\* file.external?.url || file.file?.url || ''
FileUrl(file) ==
    LET e == Get(file.external, "url")
        f == Get(file.file, "url")
    IN  IF TruthyStr(e) THEN e.v ELSE IF TruthyStr(f) THEN f.v ELSE ""

\* the featuredImage local of _buildPost
BuildFeaturedImage(prop) ==
    LET files == Get(prop.FeaturedImage, "files")
    IN  IF TruthyObj(files) /\ Len(files.v) > 0
        THEN Some([Type |-> Get(prop.FeaturedImage, "type"),
                   Url |-> FileUrl(files.v[1]),
                   ExpiryTime |-> Get(files.v[1].file, "expiry_time")])
        ELSE Null

\* a variant of BuildTags that puts the single-select value in front of the
\* multi-select values instead of choosing one
BuildTagsBoth(prop) ==
    LET sel == Get(prop.Category, "select")
        multi == Get(prop.Category, "multi_select")
    IN  (IF TruthyObj(sel) THEN <<sel.v>> ELSE <<>>)
            \o (IF TruthyObj(multi) THEN multi.v ELSE <<>>)

\* Tags: prop.Category?.select ? [select] : (prop.Category?.multi_select ? multi_select : [])
BuildTags(prop) ==
    LET sel == Get(prop.Category, "select")
        multi == Get(prop.Category, "multi_select")
    IN  IF TruthyObj(sel) THEN <<sel.v>>
        ELSE IF TruthyObj(multi) THEN multi.v ELSE <<>>

\* prop.X?.rich_text ? prop.X.rich_text.map((t) => t.plain_text).join('') : ''
BuildText(p, field) ==
    LET t == Get(p, field) IN IF TruthyObj(t) THEN JoinPlain(t.v) ELSE ""

\* prop.X?.date ? prop.X.date.start : ''
BuildDate(p) ==
    LET d == Get(p, "date") IN IF TruthyObj(d) THEN d.v.start ELSE ""

\* prop.Rank?.number || 0
BuildRank(prop) ==
    LET n == Get(prop.Rank, "number") IN IF TruthyNum(n) THEN n.v ELSE 0

\* a variant of BuildStatus without the "|| null" fallback
BuildStatusRaw(prop) == Get(prop.Status, "select")

\* prop.Status?.select || null
BuildStatus(prop) ==
    LET s == Get(prop.Status, "select") IN IF TruthyObj(s) THEN s ELSE Null

_buildPost(pageObject) ==
    LET prop == pageObject.properties
    IN  [PageId |-> pageObject.id,
         Title |-> BuildText(prop.Page, "title"),
         Slug |-> BuildText(prop.Slug, "rich_text"),
         Date |-> BuildDate(prop.Date),
         LastUpdatedDate |-> BuildDate(prop.LastUpdatedDate),
         Excerpt |-> BuildText(prop.Excerpt, "rich_text"),
         Tags |-> BuildTags(prop),
         Status |-> BuildStatus(prop),
         FeaturedImage |-> BuildFeaturedImage(prop),
         Rank |-> BuildRank(prop)]

\* results.map((pageObject) => _buildPost(pageObject))
BuildAll(raws) == [i \in 1..Len(raws) |-> _buildPost(raws[i])]

--------------------------------------------------------------------------
(* The remote content source *)

Tag(name, color) == [name |-> name, color |-> color]

\* a page object as databases.query returns it, every property present
RawPage(id, title, slug, cat, rank) ==
    [id |-> Some(id),
     properties |->
        [Page |-> Some([title |-> Some(<<[plain_text |-> title]>>)]),
         Slug |-> Some([rich_text |-> Some(<<[plain_text |-> slug]>>)]),
         Date |-> Some([date |-> Some([start |-> "2024-01-01"])]),
         LastUpdatedDate |-> Some([date |-> Null]),
         Excerpt |-> Some([rich_text |-> Some(<<>>)]),
         Category |-> cat,
         Status |-> Some([select |-> Null]),
         FeaturedImage |-> Some([type |-> Some("files"), files |-> Some(<<>>)]),
         Rank |-> rank]]

\* the n-th published record of the database
CoreRaw(n) ==
    RawPage("p" \o ToString(n), "T" \o ToString(n), "s" \o ToString(n),
            Some([select |-> Some(Tag("t" \o ToString(n % 2), "gray"))]),
            Some([number |-> Some(n % 3)]))

\* the ways N records can be split over K pages: the size of each page
Layouts == UNION {[1..k -> 0..MaxPageLen] : k \in 1..MaxPages}

RECURSIVE SumTo(_, _)
SumTo(layout, i) == IF i = 0 THEN 0 ELSE layout[i] + SumTo(layout, i - 1)

\* the pages of a layout, the records numbered in the remote's order
PagesOf(layout, Raw(_)) ==
    [i \in 1..Len(layout) |->
        [j \in 1..layout[i] |-> Raw(SumTo(layout, i - 1) + j)]]

CoreRemotes == {PagesOf(l, CoreRaw) : l \in Layouts}

\* the next_cursor values a remote may put in a response with has_more = false
LastCursors == {NoCursor, 1}

\* one page fetch: the response to a request carrying start_cursor cur; the
\* cursor the remote hands out with page i is the index of page i + 1
PageResponse(pages, cur, last) ==
    LET i == IF cur = NoCursor THEN 1 ELSE cur
    IN  [results |-> pages[i],
         has_more |-> i < Len(pages),
         next_cursor |-> IF i < Len(pages) THEN i + 1 ELSE last]

--------------------------------------------------------------------------
(* The view functions over the cached collection *)

NoArg == [pageSize |-> 0, slug |-> "", tagName |-> "", blockId |-> ""]

Min(a, b) == IF a < b THEN a ELSE b

\* Array.prototype.slice(0, n) for n >= 0
Slice(seq, n) == SubSeq(seq, 1, Min(n, Len(seq)))

\* Array.prototype.filter
Filter(seq, Keep(_)) == SelectSeq(seq, Keep)

\* Array.prototype.sort(compareFn), a stable sort (ECMAScript 2019): every
\* element in turn is put into the sorted part, behind every element that
\* does not compare greater than it
Sort(seq, Cmp(_, _)) ==
    LET RECURSIVE InsertSorted(_, _)
        InsertSorted(sorted, x) ==
            IF sorted = <<>> THEN <<x>>
            ELSE IF Cmp(Head(sorted), x) > 0 THEN <<x>> \o sorted
            ELSE <<Head(sorted)>> \o InsertSorted(Tail(sorted), x)
        RECURSIVE SortFrom(_, _)
        SortFrom(sorted, rest) ==
            IF rest = <<>> THEN sorted
            ELSE SortFrom(InsertSorted(sorted, Head(rest)), Tail(rest))
    IN  SortFrom(<<>>, seq)

\* lines 87-90
getPosts(allPosts, pageSize) == Slice(allPosts, pageSize)

\* a variant of Find that returns the last match
FindLast(seq, Is(_)) ==
    IF \E i \in 1..Len(seq) : Is(seq[i])
    THEN LET last == CHOOSE i \in 1..Len(seq) :
                         Is(seq[i]) /\ \A j \in (i + 1)..Len(seq) : ~Is(seq[j])
         IN  Some(seq[last])
    ELSE Null

\* Array.prototype.find(...) || null
Find(seq, Is(_)) ==
    IF \E i \in 1..Len(seq) : Is(seq[i])
    THEN LET first == CHOOSE i \in 1..Len(seq) :
                          Is(seq[i]) /\ \A j \in 1..(i - 1) : ~Is(seq[j])
         IN  Some(seq[first])
    ELSE Null

\* a variant of getPostBySlug that returns the last post with the slug
getPostBySlugLast(allPosts, slug) ==
    LET Is(post) == post.Slug = slug IN FindLast(allPosts, Is)

\* lines 92-95
getPostBySlug(allPosts, slug) ==
    LET Is(post) == post.Slug = slug IN Find(allPosts, Is)

\* lines 97-100
getPostsByTag(allPosts, tagName, pageSize) ==
    LET Keep(p) == \E i \in 1..Len(p.Tags) : p.Tags[i].name = tagName
    IN  Slice(Filter(allPosts, Keep), pageSize)

\* a variant of RankCompare that sorts ascending
RankCompareAscending(a, b) == a.Rank - b.Rank

\* line 104: (a, b) => (b.Rank || 0) - (a.Rank || 0)
RankCompare(a, b) == b.Rank - a.Rank

\* lines 102-105
getRankedPosts(allPosts, pageSize) ==
    LET Keep(post) == post.Rank # 0
    IN  Slice(Sort(Filter(allPosts, Keep), RankCompare), pageSize)

\* the configured NUMBER_OF_POSTS_PER_PAGE
PostsPerPage == 2

\* lines 107-110: Math.ceil(allPosts.length / NUMBER_OF_POSTS_PER_PAGE)
getNumberOfPages(allPosts) == (Len(allPosts) + PostsPerPage - 1) \div PostsPerPage

\* the tag names of the content source, in the order the locale's collation
\* puts them (case is only a tie-break: a < B < c)
TagNames == <<"a", "B", "c">>

\* the position of a name in the collation order
LocaleKey(name) == CHOOSE i \in 1..Len(TagNames) : TagNames[i] = name

\* a variant of localeCompare that compares by code unit: upper case first
codeUnitCompare(a, b) ==
    LET CodeUnitOrder == <<"B", "a", "c">>
        Key(name) == CHOOSE i \in DOMAIN CodeUnitOrder : CodeUnitOrder[i] = name
    IN  Key(a) - Key(b)

\* String.prototype.localeCompare
localeCompare(a, b) == LocaleKey(a) - LocaleKey(b)

RECURSIVE DedupeFrom(_, _, _)
\* lines 117-122: the reduce over the flattened tags, acc and tagNames in step
DedupeFrom(acc, tagNames, rest) ==
    IF rest = <<>> THEN acc
    ELSE IF Head(rest).name \notin tagNames
         THEN DedupeFrom(Append(acc, Head(rest)), tagNames \cup {Head(rest).name},
                         Tail(rest))
         ELSE DedupeFrom(acc, tagNames, Tail(rest))

\* line 116: allPosts.flatMap((post) => post.Tags)
FlatTags(allPosts) == Flatten([i \in 1..Len(allPosts) |-> allPosts[i].Tags])

\* line 123: (a, b) => a.name.localeCompare(b.name)
TagCompare(a, b) == localeCompare(a.name, b.name)

\* lines 112-124
getAllTags(allPosts) == Sort(DedupeFrom(<<>>, {}, FlatTags(allPosts)), TagCompare)

\* lines 170-172
getPostsByFilter(allPosts, pageSize) == Slice(allPosts, pageSize)

PostOps == {"getAllPosts", "getPosts", "getPostBySlug", "getPostsByTag",
            "getRankedPosts", "getNumberOfPages", "getAllTags", "getPostsByFilter"}

\* what an exported function returns once `await getAllPosts()` has given it allPosts
PostsResult(o, a, allPosts) ==
    CASE o = "getAllPosts" -> allPosts
      [] o = "getPosts" -> getPosts(allPosts, a.pageSize)
      [] o = "getPostBySlug" -> getPostBySlug(allPosts, a.slug)
      [] o = "getPostsByTag" -> getPostsByTag(allPosts, a.tagName, a.pageSize)
      [] o = "getRankedPosts" -> getRankedPosts(allPosts, a.pageSize)
      [] o = "getNumberOfPages" -> getNumberOfPages(allPosts)
      [] o = "getAllTags" -> getAllTags(allPosts)
      [] o = "getPostsByFilter" -> getPostsByFilter(allPosts, a.pageSize)

--------------------------------------------------------------------------
(* getAllPosts *)

\* a variant of CacheFilled that never finds the cache filled
CacheIgnored == FALSE

\* line 65: postsCache !== null
CacheFilled == postsCache # Null

\* a variant of FirstCursor that keeps the caller's previous start cursor
StaleCursor(c) == cursor[c]

\* lines 67-76: params is built without a start_cursor
FirstCursor(c) == NoCursor

\* line 66: let results = []
FirstResults(c) == <<>>

\* a variant of CallPosts in which getRankedPosts sorts the cached array in
\* place instead of a filtered copy
CallPostsSortInPlace(c, o, a) ==
    /\ pc[c] # "await"
    /\ ncalls < MaxCalls
    /\ ncalls' = ncalls + 1
    /\ op' = [op EXCEPT ![c] = o]
    /\ arg' = [arg EXCEPT ![c] = a]
    /\ attempts' = [attempts EXCEPT ![c] = 0]
    /\ respLog' = [respLog EXCEPT ![c] = <<>>]
    /\ IF CacheFilled
       THEN /\ pc' = [pc EXCEPT ![c] = "done"]
            /\ ret' = [ret EXCEPT ![c] = PostsResult(o, a, postsCache.v)]
            /\ hit' = [hit EXCEPT ![c] = TRUE]
            /\ reqLog' = [reqLog EXCEPT ![c] = <<>>]
            /\ postsCache' = IF o = "getRankedPosts"
                             THEN Some(Sort(postsCache.v, RankCompare))
                             ELSE postsCache
            /\ UNCHANGED <<cursor, results, fetchCount>>
       ELSE /\ pc' = [pc EXCEPT ![c] = "await"]
            /\ results' = [results EXCEPT ![c] = FirstResults(c)]
            /\ cursor' = [cursor EXCEPT ![c] = FirstCursor(c)]
            /\ hit' = [hit EXCEPT ![c] = FALSE]
            /\ reqLog' = [reqLog EXCEPT ![c] = <<FirstCursor(c)>>]
            /\ fetchCount' = fetchCount + 1
            /\ UNCHANGED <<ret, postsCache>>
    /\ UNCHANGED <<remoteVars, dbCache, cacheWrites, retrieveCount>>

\* lines 64-78, up to the first await: the cache check, then the first request
CallPosts(c, o, a) ==
    /\ pc[c] # "await"
    /\ ncalls < MaxCalls
    /\ ncalls' = ncalls + 1
    /\ op' = [op EXCEPT ![c] = o]
    /\ arg' = [arg EXCEPT ![c] = a]
    /\ attempts' = [attempts EXCEPT ![c] = 0]
    /\ respLog' = [respLog EXCEPT ![c] = <<>>]
    /\ IF CacheFilled
       THEN /\ pc' = [pc EXCEPT ![c] = "done"]
            /\ ret' = [ret EXCEPT ![c] = PostsResult(o, a, postsCache.v)]
            /\ hit' = [hit EXCEPT ![c] = TRUE]
            /\ reqLog' = [reqLog EXCEPT ![c] = <<>>]
            /\ UNCHANGED <<cursor, results, fetchCount>>
       ELSE /\ pc' = [pc EXCEPT ![c] = "await"]
            /\ results' = [results EXCEPT ![c] = FirstResults(c)]
            /\ cursor' = [cursor EXCEPT ![c] = FirstCursor(c)]
            /\ hit' = [hit EXCEPT ![c] = FALSE]
            /\ reqLog' = [reqLog EXCEPT ![c] = <<FirstCursor(c)>>]
            /\ fetchCount' = fetchCount + 1
            /\ UNCHANGED ret
    /\ UNCHANGED <<remoteVars, postsCache, dbCache, cacheWrites, retrieveCount>>

\* line 81: params.start_cursor = res.next_cursor
NextCursor(c, res) == res.next_cursor

\* a variant of Accumulate that keeps only the latest page
LatestPage(c, res) == res.results

\* a variant of Accumulate in which the calls share caller 1's accumulator
SharedAccumulate(c, res) == results[1] \o res.results

\* line 79: results = results.concat(res.results)
Accumulate(c, res) == results[c] \o res.results

\* a variant of ResolvePosts with a guard on the commit: a drain that ends
\* when the cache is already populated leaves the slot alone
ResolvePostsGuarded(c) ==
    /\ pc[c] = "await"
    /\ op[c] \in PostOps
    /\ \E last \in LastCursors :
         LET res == PageResponse(remote, cursor[c], last)
             acc == Accumulate(c, res)
         IN  /\ results' = [results EXCEPT ![c] = acc]
             /\ IF ~res.has_more
                THEN /\ postsCache' = IF postsCache # Null THEN postsCache
                                      ELSE Some(BuildAll(acc))
                     /\ cacheWrites' = IF postsCache # Null THEN cacheWrites
                                       ELSE cacheWrites + 1
                     /\ ret' = [ret EXCEPT ![c] =
                                   PostsResult(op[c], arg[c], postsCache'.v)]
                     /\ pc' = [pc EXCEPT ![c] = "done"]
                     /\ UNCHANGED <<cursor, fetchCount, reqLog, respLog>>
                ELSE /\ cursor' = [cursor EXCEPT ![c] = NextCursor(c, res)]
                     /\ fetchCount' = fetchCount + 1
                     /\ reqLog' = [reqLog EXCEPT ![c] = Append(@, NextCursor(c, res))]
                     /\ respLog' = [respLog EXCEPT ![c] = Append(@, res.next_cursor)]
                     /\ UNCHANGED <<postsCache, cacheWrites, ret, pc>>
    /\ UNCHANGED <<remoteVars, dbCache, op, arg, attempts, hit, retrieveCount, ncalls>>

\* a variant of LoopEnds that goes on for as long as the response carries a
\* cursor
LoopEndsOnCursor(res) == res.next_cursor = NoCursor

\* line 80: if (!res.has_more) break
LoopEnds(res) == ~res.has_more

\* lines 78-84: the pending databases.query is fulfilled
ResolvePosts(c) ==
    /\ pc[c] = "await"
    /\ op[c] \in PostOps
    /\ \E last \in LastCursors :
         LET res == PageResponse(remote, cursor[c], last)
             acc == Accumulate(c, res)
         IN  /\ results' = [results EXCEPT ![c] = acc]
             /\ IF LoopEnds(res)
                THEN /\ postsCache' = Some(BuildAll(acc))
                     /\ cacheWrites' = cacheWrites + 1
                     /\ ret' = [ret EXCEPT ![c] =
                                   PostsResult(op[c], arg[c], BuildAll(acc))]
                     /\ pc' = [pc EXCEPT ![c] = "done"]
                     /\ UNCHANGED <<cursor, fetchCount, reqLog, respLog>>
                ELSE /\ cursor' = [cursor EXCEPT ![c] = NextCursor(c, res)]
                     /\ fetchCount' = fetchCount + 1
                     /\ reqLog' = [reqLog EXCEPT ![c] = Append(@, NextCursor(c, res))]
                     /\ respLog' = [respLog EXCEPT ![c] = Append(@, res.next_cursor)]
                     /\ UNCHANGED <<postsCache, cacheWrites, ret, pc>>
    /\ UNCHANGED <<remoteVars, dbCache, op, arg, attempts, hit, retrieveCount, ncalls>>

\* a variant of RejectPosts that stores what was drained before the error
RejectPostsCommit(c) ==
    /\ pc[c] = "await"
    /\ op[c] \in PostOps
    /\ pc' = [pc EXCEPT ![c] = "failed"]
    /\ postsCache' = Some(BuildAll(results[c]))
    /\ cacheWrites' = cacheWrites + 1
    /\ UNCHANGED <<remoteVars, dbCache, op, arg, cursor, results, attempts,
                   ret, reqLog, respLog, hit, fetchCount, retrieveCount, ncalls>>

\* line 78: the pending databases.query is rejected; nothing catches the
\* error, so it leaves getAllPosts as the rejection of its promise
RejectPosts(c) ==
    /\ pc[c] = "await"
    /\ op[c] \in PostOps
    /\ pc' = [pc EXCEPT ![c] = "failed"]
    /\ UNCHANGED <<remoteVars, postsCache, dbCache, op, arg, cursor, results, attempts,
                   ret, reqLog, respLog, hit, fetchCount, cacheWrites, retrieveCount,
                   ncalls>>

--------------------------------------------------------------------------
(* getAllBlocksByBlockId *)

BlockIds == {"b1", "b2"}

\* the n-th child block as blocks.children.list returns it: the payload sits
\* under the key named by its type
ChildRaw(n) ==
    LET type == IF n % 2 = 1 THEN "paragraph" ELSE "heading_1"
    IN  (type :> [text |-> "x" \o ToString(n)])
            @@ [id |-> "k" \o ToString(n), type |-> type, has_children |-> (n % 2 = 0)]

\* a variant of BuildBlock that puts every payload under the key "paragraph"
BuildBlockParagraph(blockObject) ==
    ("paragraph" :> blockObject[blockObject.type])
        @@ [Id |-> blockObject.id,
            Type |-> blockObject.type,
            HasChildren |-> blockObject.has_children]

\* lines 135-140: one Block per block object
BuildBlock(blockObject) ==
    (blockObject.type :> blockObject[blockObject.type])
        @@ [Id |-> blockObject.id,
            Type |-> blockObject.type,
            HasChildren |-> blockObject.has_children]

\* results.map((blockObject) => ({...}))
BuildBlocks(raws) == [i \in 1..Len(raws) |-> BuildBlock(raws[i])]

\* lines 126-130, up to the first await: no cache is consulted
CallBlocks(c, blockId) ==
    /\ pc[c] # "await"
    /\ ncalls < MaxCalls
    /\ ncalls' = ncalls + 1
    /\ op' = [op EXCEPT ![c] = "getAllBlocksByBlockId"]
    /\ arg' = [arg EXCEPT ![c] = [NoArg EXCEPT !.blockId = blockId]]
    /\ attempts' = [attempts EXCEPT ![c] = 0]
    /\ pc' = [pc EXCEPT ![c] = "await"]
    /\ results' = [results EXCEPT ![c] = <<>>]
    /\ cursor' = [cursor EXCEPT ![c] = NoCursor]
    /\ hit' = [hit EXCEPT ![c] = FALSE]
    /\ reqLog' = [reqLog EXCEPT ![c] = <<NoCursor>>]
    /\ respLog' = [respLog EXCEPT ![c] = <<>>]
    /\ UNCHANGED <<remoteVars, postsCache, dbCache, ret, fetchCount, cacheWrites,
                   retrieveCount>>

\* a variant of NextBlockCursor that never advances the cursor
SameBlockCursor(c, res) == cursor[c]

\* line 133: params.start_cursor = res.next_cursor
NextBlockCursor(c, res) == res.next_cursor

\* lines 130-140: the pending blocks.children.list is fulfilled
ResolveBlocks(c) ==
    /\ pc[c] = "await"
    /\ op[c] = "getAllBlocksByBlockId"
    /\ \E last \in LastCursors :
         LET res == PageResponse(children[arg[c].blockId], cursor[c], last)
             acc == results[c] \o res.results
         IN  /\ results' = [results EXCEPT ![c] = acc]
             /\ IF ~res.has_more
                THEN /\ ret' = [ret EXCEPT ![c] = BuildBlocks(acc)]
                     /\ pc' = [pc EXCEPT ![c] = "done"]
                     /\ UNCHANGED <<cursor, reqLog, respLog>>
                ELSE /\ cursor' = [cursor EXCEPT ![c] = NextBlockCursor(c, res)]
                     /\ reqLog' = [reqLog EXCEPT ![c] =
                                      Append(@, NextBlockCursor(c, res))]
                     /\ respLog' = [respLog EXCEPT ![c] = Append(@, res.next_cursor)]
                     /\ UNCHANGED <<ret, pc>>
    /\ UNCHANGED <<remoteVars, postsCache, dbCache, op, arg, attempts, hit, fetchCount,
                   cacheWrites, retrieveCount, ncalls>>

\* line 130: the pending blocks.children.list is rejected
RejectBlocks(c) ==
    /\ pc[c] = "await"
    /\ op[c] = "getAllBlocksByBlockId"
    /\ pc' = [pc EXCEPT ![c] = "failed"]
    /\ UNCHANGED <<remoteVars, postsCache, dbCache, op, arg, cursor, results, attempts,
                   ret, reqLog, respLog, hit, fetchCount, cacheWrites, retrieveCount,
                   ncalls>>

--------------------------------------------------------------------------
(* getDatabase *)

numberOfRetry == 2

\* (x as any)[x.type]?.url || ''
TypedUrl(x) ==
    LET u == Get(Get(Some(x), x.type), "url")
    IN  IF TruthyStr(u) THEN u.v ELSE ""

\* lines 46-53
BuildIcon(res) ==
    IF TruthyObj(res.icon)
    THEN IF res.icon.v.type = "emoji"
         THEN Some([Type |-> "emoji", Emoji |-> res.icon.v.emoji])
         ELSE Some([Type |-> res.icon.v.type, Url |-> TypedUrl(res.icon.v)])
    ELSE Null

\* lines 55-60
BuildDatabase(res) ==
    [Title |-> JoinPlain(res.title),
     Description |-> JoinPlain(res.description),
     Icon |-> BuildIcon(res),
     Cover |-> IF TruthyObj(res.cover)
               THEN Some([Type |-> res.cover.v.type, Url |-> TypedUrl(res.cover.v)])
               ELSE Null]

\* lines 35-41, up to the first await
CallDatabase(c) ==
    /\ pc[c] # "await"
    /\ ncalls < MaxCalls
    /\ ncalls' = ncalls + 1
    /\ op' = [op EXCEPT ![c] = "getDatabase"]
    /\ arg' = [arg EXCEPT ![c] = NoArg]
    /\ attempts' = [attempts EXCEPT ![c] = 0]
    /\ reqLog' = [reqLog EXCEPT ![c] = <<>>]
    /\ respLog' = [respLog EXCEPT ![c] = <<>>]
    /\ IF dbCache # Null
       THEN /\ pc' = [pc EXCEPT ![c] = "done"]
            /\ ret' = [ret EXCEPT ![c] = dbCache.v]
            /\ hit' = [hit EXCEPT ![c] = TRUE]
            /\ UNCHANGED retrieveCount
       ELSE /\ pc' = [pc EXCEPT ![c] = "await"]
            /\ hit' = [hit EXCEPT ![c] = FALSE]
            /\ retrieveCount' = retrieveCount + 1
            /\ UNCHANGED ret
    /\ UNCHANGED <<remoteVars, postsCache, dbCache, cursor, results, fetchCount,
                   cacheWrites>>

\* a variant of ResolveDatabase that empties the post cache when it fills the
\* database cache
ResolveDatabaseReset(c) ==
    /\ pc[c] = "await"
    /\ op[c] = "getDatabase"
    /\ dbCache' = Some(BuildDatabase(dbRaw))
    /\ postsCache' = Null
    /\ ret' = [ret EXCEPT ![c] = BuildDatabase(dbRaw)]
    /\ pc' = [pc EXCEPT ![c] = "done"]
    /\ UNCHANGED <<remoteVars, op, arg, cursor, results, attempts, reqLog,
                   respLog, hit, fetchCount, cacheWrites, retrieveCount, ncalls>>

\* a variant of ResolveDatabase that returns the metadata without storing it
ResolveDatabaseNoStore(c) ==
    /\ pc[c] = "await"
    /\ op[c] = "getDatabase"
    /\ ret' = [ret EXCEPT ![c] = BuildDatabase(dbRaw)]
    /\ pc' = [pc EXCEPT ![c] = "done"]
    /\ UNCHANGED <<remoteVars, postsCache, dbCache, op, arg, cursor, results, attempts,
                   reqLog, respLog, hit, fetchCount, cacheWrites, retrieveCount, ncalls>>

\* lines 37-61: the pending databases.retrieve is fulfilled
ResolveDatabase(c) ==
    /\ pc[c] = "await"
    /\ op[c] = "getDatabase"
    /\ dbCache' = Some(BuildDatabase(dbRaw))
    /\ ret' = [ret EXCEPT ![c] = BuildDatabase(dbRaw)]
    /\ pc' = [pc EXCEPT ![c] = "done"]
    /\ UNCHANGED <<remoteVars, postsCache, op, arg, cursor, results, attempts, reqLog,
                   respLog, hit, fetchCount, cacheWrites, retrieveCount, ncalls>>

\* lines 37-44: the pending databases.retrieve is rejected; async-retry runs
\* the function again until numberOfRetry retries are used up, then rejects
RejectDatabase(c) ==
    /\ pc[c] = "await"
    /\ op[c] = "getDatabase"
    /\ IF attempts[c] < numberOfRetry
       THEN /\ attempts' = [attempts EXCEPT ![c] = @ + 1]
            /\ retrieveCount' = retrieveCount + 1
            /\ UNCHANGED pc
       ELSE /\ pc' = [pc EXCEPT ![c] = "failed"]
            /\ UNCHANGED <<attempts, retrieveCount>>
    /\ UNCHANGED <<remoteVars, postsCache, dbCache, op, arg, cursor, results, ret,
                   reqLog, respLog, hit, fetchCount, cacheWrites, ncalls>>

--------------------------------------------------------------------------
(* Specifications *)

\* the child lists served for the block ids: several pages, and one empty page
CoreChildren ==
    [b \in BlockIds |->
        IF b = "b1" THEN PagesOf(<<1, 0, 2>>, ChildRaw) ELSE PagesOf(<<0>>, ChildRaw)]

\* database objects as databases.retrieve returns them
DbRaws ==
    {[icon |-> Null,
      title |-> <<[plain_text |-> "My "], [plain_text |-> "Blog"]>>,
      description |-> <<>>,
      cover |-> Null],
     [icon |-> Some([type |-> "emoji", emoji |-> "E"]),
      title |-> <<[plain_text |-> "Blog"]>>,
      description |-> <<[plain_text |-> "about"]>>,
      cover |-> Some([type |-> "external", external |-> Some([url |-> Some("c")])])],
     [icon |-> Some([type |-> "file", file |-> Some([url |-> Some("i")])]),
      title |-> <<>>,
      description |-> <<>>,
      cover |-> Some([type |-> "file"])]}

InitCallers ==
    /\ postsCache = Null
    /\ dbCache = Null
    /\ op = [c \in Callers |-> "none"]
    /\ arg = [c \in Callers |-> NoArg]
    /\ pc = [c \in Callers |-> "idle"]
    /\ cursor = [c \in Callers |-> NoCursor]
    /\ results = [c \in Callers |-> <<>>]
    /\ attempts = [c \in Callers |-> 0]
    /\ ret = [c \in Callers |-> <<>>]
    /\ reqLog = [c \in Callers |-> <<>>]
    /\ respLog = [c \in Callers |-> <<>>]
    /\ hit = [c \in Callers |-> FALSE]
    /\ fetchCount = 0
    /\ cacheWrites = 0
    /\ retrieveCount = 0
    /\ ncalls = 0

\* the requests of the entity-collection path: getAllPosts by concurrent callers
Init ==
    /\ remote \in CoreRemotes
    /\ children = CoreChildren
    /\ dbRaw \in {dr \in DbRaws : dr.icon = Null}
    /\ InitCallers

Next ==
    \E c \in Callers :
        \/ CallPosts(c, "getAllPosts", NoArg)
        \/ ResolvePosts(c)
        \/ RejectPosts(c)

Spec == Init /\ [][Next]_vars

\* both drains, interleaved: getAllPosts and getAllBlocksByBlockId
InitDrain ==
    /\ remote \in {PagesOf(l, CoreRaw) : l \in {l \in Layouts : \A i \in 1..Len(l) : l[i] = 1}}
    /\ children = CoreChildren
    /\ dbRaw \in {dr \in DbRaws : dr.icon = Null}
    /\ InitCallers

NextDrain ==
    \E c \in Callers :
        \/ CallPosts(c, "getAllPosts", NoArg)
        \/ ResolvePosts(c)
        \/ RejectPosts(c)
        \/ \E b \in BlockIds : CallBlocks(c, b)
        \/ ResolveBlocks(c)
        \/ RejectBlocks(c)

SpecDrain == InitDrain /\ [][NextDrain]_vars

\* the entity-collection path when every page fetch succeeds: a pending
\* databases.query is always fulfilled in the end
NextLive ==
    \E c \in TwoCallers :
        \/ CallPosts(c, "getAllPosts", NoArg)
        \/ ResolvePosts(c)

SpecLive ==
    Init /\ [][NextLive]_vars /\ \A c \in TwoCallers : WF_vars(ResolvePosts(c))

--------------------------------------------------------------------------
(* The view functions, applied to collections with ties, zero ranks, shared
   tags and colliding slugs *)

MaxViewLen == 4

ViewShapes ==
    {[slug |-> "x", rank |-> Some([number |-> Some(0)]),
      cat |-> Some([multi_select |-> Some(<<Tag("a", "red"), Tag("B", "blue")>>)])],
     [slug |-> "y", rank |-> Some([number |-> Some(5)]),
      cat |-> Some([multi_select |-> Some(<<Tag("B", "green"), Tag("c", "gray")>>)])],
     [slug |-> "x", rank |-> Some([number |-> Some(3)]),
      cat |-> Some([select |-> Some(Tag("c", "pink"))])],
     [slug |-> "z", rank |-> Some([number |-> Some(0 - 1)]),
      cat |-> Undefined]}

\* the published records n = 1..N, the n-th of shape shapes[n], served in
\* pages of MaxPageLen records
ViewPages(shapes) ==
    LET N == Len(shapes)
        K == IF N = 0 THEN 1 ELSE (N + MaxPageLen - 1) \div MaxPageLen
        Raw(n) == RawPage("p" \o ToString(n), "T" \o ToString(n), shapes[n].slug,
                          shapes[n].cat, shapes[n].rank)
    IN  PagesOf([i \in 1..K |-> Min(MaxPageLen, N - (i - 1) * MaxPageLen)], Raw)

ViewRemotes ==
    {ViewPages(shapes) : shapes \in UNION {[1..n -> ViewShapes] : n \in 0..MaxViewLen}}

\* the arguments the build passes to the view functions
ViewArgs(o) ==
    CASE o \in {"getPosts", "getRankedPosts", "getPostsByFilter"} ->
            {[NoArg EXCEPT !.pageSize = n] : n \in {0, 2, MaxViewLen}}
      [] o = "getPostBySlug" -> {[NoArg EXCEPT !.slug = x] : x \in {"x", "y", "w"}}
      [] o = "getPostsByTag" ->
            {[NoArg EXCEPT !.tagName = t, !.pageSize = n] :
                t \in {"a", "B", "d"}, n \in {1, MaxViewLen}}
      [] OTHER -> {NoArg}

InitView ==
    /\ remote \in ViewRemotes
    /\ children = CoreChildren
    /\ dbRaw \in {dr \in DbRaws : dr.icon = Null}
    /\ InitCallers

NextView ==
    \/ \E o \in PostOps : \E a \in ViewArgs(o) : CallPosts(1, o, a)
    \/ ResolvePosts(1)

SpecView == InitView /\ [][NextView]_vars

\* the two cache slots side by side: getDatabase next to getAllPosts and the
\* view functions, by concurrent callers
DbArgs(o) ==
    CASE o \in {"getPosts", "getRankedPosts", "getPostsByFilter"} ->
            [NoArg EXCEPT !.pageSize = 2]
      [] o = "getPostBySlug" -> [NoArg EXCEPT !.slug = "y"]
      [] o = "getPostsByTag" -> [NoArg EXCEPT !.tagName = "B", !.pageSize = 2]
      [] OTHER -> NoArg

InitDb ==
    /\ remote \in {ViewPages(<<s>>) : s \in {s \in ViewShapes : s.slug # "x"}}
    /\ children = CoreChildren
    /\ dbRaw \in DbRaws
    /\ InitCallers

NextDb ==
    \E c \in TwoCallers :
        \/ CallDatabase(c)
        \/ ResolveDatabase(c)
        \/ RejectDatabase(c)
        \/ \E o \in PostOps : CallPosts(c, o, DbArgs(o))
        \/ ResolvePosts(c)
        \/ RejectPosts(c)

SpecDb == InitDb /\ [][NextDb]_vars

--------------------------------------------------------------------------
(* The normalizer, applied to records whose optional properties are missing,
   null or empty *)

\* the properties of a record that has them all
BuildProps(cat) ==
    [Page |-> Some([title |-> Some(<<[plain_text |-> "He"], [plain_text |-> "llo"]>>)]),
     Slug |-> Some([rich_text |-> Some(<<[plain_text |-> "hello"]>>)]),
     Date |-> Some([date |-> Some([start |-> "2024-01-02"])]),
     LastUpdatedDate |-> Some([date |-> Some([start |-> "2024-02-03"])]),
     Excerpt |-> Some([rich_text |-> Some(<<[plain_text |-> "ex"]>>)]),
     Category |-> cat,
     Status |-> Some([select |-> Some(Tag("Done", "green"))]),
     FeaturedImage |->
        Some([type |-> Some("files"),
              files |-> Some(<<[external |-> Undefined,
                                file |-> Some([url |-> Some("f"),
                                               expiry_time |-> Some("t")])]>>)]),
     Rank |-> Some([number |-> Some(7)])]

\* property name present, with nothing in it
Hollow(name) ==
    CASE name = "Page" -> Some([title |-> Some(<<>>)])
      [] name \in {"Slug", "Excerpt"} -> Some([rich_text |-> Some(<<>>)])
      [] name \in {"Date", "LastUpdatedDate"} -> Some([date |-> Null])
      [] name = "Status" -> Some([select |-> Null])
      [] name = "FeaturedImage" -> Some([type |-> Some("files"), files |-> Some(<<>>)])
      [] name = "Rank" -> Some([number |-> Null])

\* props with the properties named in gone made undefined, null or hollow
Degrade(props, gone, mode) ==
    [name \in DOMAIN props |->
        IF name \notin gone THEN props[name]
        ELSE CASE mode = "undefined" -> Undefined
               [] mode = "null" -> Null
               [] mode = "hollow" -> Hollow(name)]

\* the shapes of the Category property: missing, null, or an object with a
\* select value, a multi_select list, neither, or both
Categories ==
    {Undefined, Null} \cup
    {Some([select |-> sel, multi_select |-> multi]) :
        sel \in {Undefined, Null, Some(Tag("Tech", "blue"))},
        multi \in {Undefined, Some(<<>>), Some(<<Tag("a", "red"), Tag("B", "blue")>>)}}

BaseRaw(props) == [id |-> Some("p1"), properties |-> props]

BuildRaws ==
    {BaseRaw(Degrade(BuildProps(cat), gone, mode)) :
        cat \in Categories,
        gone \in SUBSET {"Page", "Slug", "Date", "LastUpdatedDate", "Excerpt", "Status",
                         "FeaturedImage", "Rank"},
        mode \in {"undefined", "null", "hollow"}}

\* records the remote delivers without an id
BadRaws == {[id |-> Undefined, properties |-> BuildProps(cat)] : cat \in Categories}

InitBuild ==
    /\ remote \in {<<<<raw>>>> : raw \in BuildRaws \cup BadRaws}
    /\ children = CoreChildren
    /\ dbRaw \in {dr \in DbRaws : dr.icon = Null}
    /\ InitCallers

NextBuild ==
    \/ CallPosts(1, "getAllPosts", NoArg)
    \/ ResolvePosts(1)
    \/ RejectPosts(1)

SpecBuild == InitBuild /\ [][NextBuild]_vars

--------------------------------------------------------------------------
(* Properties of the entity-collection path, checked under Spec *)

Range(seq) == {seq[i] : i \in 1..Len(seq)}

\* caller c's getAllPosts has returned after draining the remote itself
ColdDone(c) == op[c] = "getAllPosts" /\ pc[c] = "done" /\ ~hit[c]

\* C1: pagination exhaustiveness.  A getAllPosts call that had to drain the
\* remote returns exactly one post per remote record, N in all, the i-th post
\* built from the i-th record of the concatenation page 1, page 2, ..., page K,
\* whatever K is and whichever pages are empty.
C1_PaginationExhaustive ==
    \A c \in Callers :
        ColdDone(c) =>
            LET all == Flatten(remote)
            IN  /\ Len(ret[c]) = Len(all)
                /\ \A i \in 1..Len(all) :
                      /\ ret[c][i].PageId = all[i].id
                      /\ ret[c][i] = _buildPost(all[i])

\* a drain of three pages, one of them empty, has returned its two records
C1_Witness ==
    \E c \in Callers :
        /\ ColdDone(c)
        /\ Len(remote) = 3
        /\ \E i \in 1..3 : remote[i] = <<>>
        /\ Len(ret[c]) = 2

\* C2: cache idempotence.  A getAllPosts call made once the cache is filled
\* sends no page request (the request count stays as it was) and returns the
\* cached collection, which every getAllPosts call that has returned got too.
C2_CacheIdempotence ==
    [][(ncalls' = ncalls + 1 /\ postsCache # Null) =>
          /\ fetchCount' = fetchCount
          /\ \E c \in Callers :
                /\ pc'[c] = "done" /\ hit'[c]
                /\ ret'[c] = postsCache.v
                /\ \A d \in Callers :
                      (op'[d] = "getAllPosts" /\ pc'[d] = "done") => ret'[d] = ret'[c]
      ]_vars

\* a first call drained a non-empty remote, a second call was served from the
\* cache, and only the first call's requests were sent
C2_Witness ==
    \E c, d \in Callers :
        /\ ColdDone(c)
        /\ op[d] = "getAllPosts" /\ pc[d] = "done" /\ hit[d]
        /\ Len(ret[d]) >= 2
        /\ ncalls = 2
        /\ fetchCount = Len(remote)

\* C3: failure isolation.  A rejected page fetch ends the call as failed and
\* leaves postsCache as it was; the cache is filled only if some call has
\* returned; and every call that finds the cache empty, a failed caller's
\* next one included, starts with an empty accumulator and a request that
\* carries no cursor.
C3_FailureIsolation ==
    /\ [](postsCache # Null => \E c \in Callers : pc[c] = "done")
    /\ [][\A c \in Callers :
            /\ (pc[c] = "await" /\ pc'[c] = "failed") => postsCache' = postsCache
            /\ (pc[c] # "await" /\ pc'[c] = "await") =>
                  /\ cursor'[c] = NoCursor
                  /\ results'[c] = <<>>
                  /\ reqLog'[c] = <<NoCursor>>
         ]_vars

\* one caller's first call failed on its second page and its second call
\* drained all three pages again from the start
C3_Witness ==
    \E c \in Callers :
        /\ ColdDone(c)
        /\ ncalls = 2
        /\ \A d \in Callers \ {c} : pc[d] = "idle"
        /\ Len(remote) = 3
        /\ fetchCount = 2 + 3
        /\ reqLog[c] = <<NoCursor, 2, 3>>
        /\ postsCache = Some(ret[c])

\* C4: no partial commit.  postsCache is null or the normalization of all the
\* records of all the pages; it never holds a proper prefix of them.
C4_NoPartialCommit ==
    postsCache = Null \/ postsCache = Some(BuildAll(Flatten(remote)))

\* the cache is filled although a call failed after it had accumulated records
C4_Witness ==
    /\ postsCache # Null
    /\ \E c \in Callers :
          /\ pc[c] = "failed"
          /\ results[c] # <<>>
          /\ Len(results[c]) < Len(Flatten(remote))

\* C5: cache immutability.  Once postsCache is non-null no step changes it or
\* assigns it again: the slot is written at most once.
C5_CacheWrittenOnce ==
    [][postsCache # Null => (postsCache' = postsCache /\ cacheWrites' = cacheWrites)]_vars

\* the number of requests of c's current call that carried start cursor cur
Requests(c, cur) == Cardinality({i \in 1..Len(reqLog[c]) : reqLog[c][i] = cur})

\* C6: per-page bounded retry.  When getAllPosts has failed, the page request
\* that failed had been sent again at least once and at most numberOfRetry
\* times before the error was passed on.
C6_PageFetchRetried ==
    \A c \in Callers :
        (op[c] \in PostOps /\ pc[c] = "failed") =>
            /\ Requests(c, cursor[c]) >= 2
            /\ Requests(c, cursor[c]) <= 1 + numberOfRetry

--------------------------------------------------------------------------
(* Properties of the two drains, checked under SpecDrain *)

\* caller c is running, or has ended, a drain of its own
Draining(c) ==
    /\ op[c] \in {"getAllPosts", "getAllBlocksByBlockId"}
    /\ pc[c] \in {"await", "done", "failed"}
    /\ ~hit[c]

\* C7: strictly sequential cursor chaining.  In every drain the requests sent
\* outnumber the has_more responses received by exactly one (one request is
\* pending, or the last one was answered without has_more or rejected); the
\* pending request carries the start cursor last requested; the first
\* request carries no cursor; every later request carries the next_cursor of
\* the response before it; and no start cursor is requested twice.
C7_SequentialCursorChaining ==
    \A c \in Callers :
        Draining(c) =>
            /\ Len(reqLog[c]) = Len(respLog[c]) + 1
            /\ reqLog[c][1] = NoCursor
            /\ cursor[c] = reqLog[c][Len(reqLog[c])]
            /\ \A i \in 2..Len(reqLog[c]) : reqLog[c][i] = respLog[c][i - 1]
            /\ \A i, j \in 1..Len(reqLog[c]) : reqLog[c][i] = reqLog[c][j] => i = j

\* a three-page child listing and a three-page database query have both been
\* drained, one request per page
C7_Witness ==
    \E c, d \in Callers :
        /\ op[c] = "getAllBlocksByBlockId" /\ pc[c] = "done"
        /\ reqLog[c] = <<NoCursor, 2, 3>>
        /\ op[d] = "getAllPosts" /\ pc[d] = "done" /\ ~hit[d]
        /\ reqLog[d] = <<NoCursor, 2, 3>>

--------------------------------------------------------------------------
(* Properties of the normalizer, checked under SpecBuild *)

\* the Category property of a record carries a non-null single-select value
HasSelect(cat) == cat.k = "val" /\ cat.v.select.k = "val"

\* the Category property of a record carries a multi-select list
HasMultiSelect(cat) == cat.k = "val" /\ cat.v.multi_select.k = "val"

\* C9: tag normalization.  The Tags of the post built from a record are the
\* one-element sequence of the single-select value when Category.select is
\* present and non-null; otherwise Category.multi_select unchanged when that
\* is present; otherwise empty.  The single-select value is never combined
\* with multi-select values.
C9_TagNormalization ==
    postsCache # Null =>
        \A i \in 1..Len(postsCache.v) :
            LET cat == Flatten(remote)[i].properties.Category
                tags == postsCache.v[i].Tags
            IN  /\ HasSelect(cat) => tags = <<cat.v.select.v>>
                /\ (~HasSelect(cat) /\ HasMultiSelect(cat)) => tags = cat.v.multi_select.v
                /\ (~HasSelect(cat) /\ ~HasMultiSelect(cat)) => tags = <<>>
                /\ (HasSelect(cat) /\ HasMultiSelect(cat)) =>
                      \A j \in 1..Len(cat.v.multi_select.v) :
                          cat.v.multi_select.v[j] \notin Range(tags)

\* a record with a single-select value and two multi-select values has been
\* normalized to the single-select value alone
C9_Witness ==
    /\ postsCache # Null
    /\ LET cat == remote[1][1].properties.Category
       IN  /\ HasSelect(cat) /\ HasMultiSelect(cat)
           /\ Len(cat.v.multi_select.v) = 2
           /\ postsCache.v[1].Tags = <<Tag("Tech", "blue")>>

--------------------------------------------------------------------------
(* Properties of the view functions, checked under SpecView *)

\* the view function o has returned to the caller
ViewDone(o) == op[1] = o /\ pc[1] = "done" /\ postsCache # Null

\* the position of a cached post in the cached order (PageId is unique)
CachedAt(post) == CHOOSE i \in 1..Len(postsCache.v) : postsCache.v[i] = post

\* post p comes before post q in the rank listing: higher Rank first, and
\* for equal Rank the one cached first
RankedBefore(p, q) ==
    \/ p.Rank > q.Rank
    \/ (p.Rank = q.Rank /\ CachedAt(p) < CachedAt(q))

\* C8: rank listing.  getRankedPosts(pageSize) returns cached posts with
\* non-zero Rank only, ordered by Rank descending with posts of equal Rank in
\* their cached order, cut to the first pageSize: every post with non-zero
\* Rank that is left out comes after all the returned ones.
C8_RankListing ==
    ViewDone("getRankedPosts") =>
        LET all == postsCache.v
            r == ret[1]
            ranked == {i \in 1..Len(all) : all[i].Rank # 0}
        IN  /\ Len(r) = Min(arg[1].pageSize, Cardinality(ranked))
            /\ \A i \in 1..Len(r) : r[i] \in {all[k] : k \in ranked}
            /\ \A i, j \in 1..Len(r) : i < j => RankedBefore(r[i], r[j])
            /\ \A k \in ranked :
                  all[k] \notin Range(r) =>
                      \A i \in 1..Len(r) : RankedBefore(r[i], all[k])

\* posts with ranks 0, 5, 5, 3 are cached and the listing is the second, the
\* third and the fourth of them
C8_Witness ==
    /\ ViewDone("getRankedPosts")
    /\ arg[1].pageSize = 4
    /\ [i \in 1..Len(postsCache.v) |-> postsCache.v[i].Rank] = <<0, 5, 5, 3>>
    /\ ret[1] = <<postsCache.v[2], postsCache.v[3], postsCache.v[4]>>

\* the places (post, tag) of the cached collection where a tag is called name
TagPlaces(name) ==
    {pl \in UNION {{<<i, j>> : j \in 1..Len(postsCache.v[i].Tags)} :
                      i \in 1..Len(postsCache.v)} :
        postsCache.v[pl[1]].Tags[pl[2]].name = name}

\* the first of them: post order, then tag order within the post
FirstPlace(name) ==
    CHOOSE pl \in TagPlaces(name) :
        \A other \in TagPlaces(name) :
            pl[1] < other[1] \/ (pl[1] = other[1] /\ pl[2] <= other[2])

\* C10: distinct tag extraction.  getAllTags() returns every tag name that
\* occurs in a cached post's Tags exactly once and no other name, for each
\* name the tag object of its first occurrence in cached order, the sequence
\* sorted by name in the locale's order.
C10_DistinctTags ==
    ViewDone("getAllTags") =>
        LET r == ret[1]
            names == {n \in Range(TagNames) : TagPlaces(n) # {}}
        IN  /\ {r[i].name : i \in 1..Len(r)} = names
            /\ Len(r) = Cardinality(names)
            /\ \A i \in 1..Len(r) :
                  LET pl == FirstPlace(r[i].name)
                  IN  r[i] = postsCache.v[pl[1]].Tags[pl[2]]
            /\ \A i, j \in 1..Len(r) :
                  i < j => LocaleKey(r[i].name) < LocaleKey(r[j].name)

\* posts tagged [a, B] and [B, c] are cached, the two B objects differ, and
\* the result is a, the first B, c
C10_Witness ==
    /\ ViewDone("getAllTags")
    /\ Len(postsCache.v) = 2
    /\ postsCache.v[1].Tags = <<Tag("a", "red"), Tag("B", "blue")>>
    /\ postsCache.v[2].Tags = <<Tag("B", "green"), Tag("c", "gray")>>
    /\ ret[1] = <<Tag("a", "red"), Tag("B", "blue"), Tag("c", "gray")>>

\* C11: slug lookup.  getPostBySlug(slug) is fulfilled (it does not fail)
\* with the first post in cached order whose Slug equals slug, the earliest
\* one when several posts share the slug, and with null when no post has it.
C11_SlugLookup ==
    ViewDone("getPostBySlug") =>
        LET all == postsCache.v
            matches == {i \in 1..Len(all) : all[i].Slug = arg[1].slug}
        IN  /\ matches = {} => ret[1] = Null
            /\ matches # {} =>
                  \E i \in matches :
                      /\ \A j \in matches : i <= j
                      /\ ret[1] = Some(all[i])

\* two cached posts share the slug asked for, another post comes before
\* them, and the lookup returned the earlier of the two
C11_Witness ==
    /\ ViewDone("getPostBySlug")
    /\ Len(postsCache.v) = 3
    /\ arg[1].slug = "x"
    /\ postsCache.v[1].Slug = "y"
    /\ postsCache.v[2].Slug = "x"
    /\ postsCache.v[3].Slug = "x"
    /\ ret[1] = Some(postsCache.v[2])

--------------------------------------------------------------------------
(* Further properties of the record normalizer, checked under SpecBuild *)

\* the optional properties of a raw record
OptionalProps ==
    {"Page", "Slug", "Date", "LastUpdatedDate", "Excerpt", "Category", "Status",
     "FeaturedImage", "Rank"}

\* the properties of the one record of the remote that are absent or null
Missing == {name \in OptionalProps : ~Present(remote[1][1].properties[name])}

\* C12: defensive normalization.  Whichever subset of the optional
\* properties of a raw record is absent or null, the drain that normalizes
\* it completes (it does not fail), and each affected field of the post has
\* its default: '' for Title, Slug, Date, LastUpdatedDate and Excerpt, [] for
\* Tags, null for Status and FeaturedImage, 0 for Rank.
C12_DefensiveNormalization ==
    ColdDone(1) =>
        /\ postsCache # Null
        /\ Len(postsCache.v) = 1
        /\ LET post == postsCache.v[1]
           IN  /\ "Page" \in Missing => post.Title = ""
               /\ "Slug" \in Missing => post.Slug = ""
               /\ "Date" \in Missing => post.Date = ""
               /\ "LastUpdatedDate" \in Missing => post.LastUpdatedDate = ""
               /\ "Excerpt" \in Missing => post.Excerpt = ""
               /\ "Category" \in Missing => post.Tags = <<>>
               /\ "Status" \in Missing => post.Status = Null
               /\ "FeaturedImage" \in Missing => post.FeaturedImage = Null
               /\ "Rank" \in Missing => post.Rank = 0

\* a record with every optional property null has been normalized
C12_Witness ==
    /\ ColdDone(1)
    /\ Missing = OptionalProps
    /\ \A name \in OptionalProps : remote[1][1].properties[name] = Null
    /\ postsCache.v[1].Rank = 0
    /\ postsCache.v[1].Status = Null

\* the remote holds a record whose identifier is missing
HasBadRecord == \E i \in 1..Len(Flatten(remote)) : ~Present(Flatten(remote)[i].id)

\* C13: a bad record fails the batch.  When a record of the drained
\* sequence lacks its identifier, getAllPosts does not return a collection
\* (the caller gets an error), no post without an identifier is emitted, and
\* postsCache stays unpopulated.
C13_BadRecordFailsBatch ==
    HasBadRecord =>
        /\ postsCache = Null
        /\ \A c \in Callers : ~(op[c] = "getAllPosts" /\ pc[c] = "done")

--------------------------------------------------------------------------
(* Concurrent first access, checked under Spec *)

\* C14: first-access race without single-flight.  Every getAllPosts call
\* that passes the cache check while postsCache is null sends a first
\* request without a cursor and drains the whole remote itself, one request
\* per page, whatever the other callers are doing; and the step that ends
\* its drain writes postsCache with the collection it returns.
C14_RaceWithoutSingleFlight ==
    /\ [](\A c \in Callers :
            /\ (op[c] = "getAllPosts" /\ ~hit[c]) =>
                  /\ reqLog[c] # <<>>
                  /\ reqLog[c][1] = NoCursor
            /\ ColdDone(c) => Len(reqLog[c]) = Len(remote))
    /\ [][\A c \in Callers :
            /\ (postsCache = Null /\ pc[c] # "await" /\ pc'[c] # pc[c]) =>
                  /\ pc'[c] = "await"
                  /\ cursor'[c] = NoCursor
                  /\ fetchCount' = fetchCount + 1
            /\ (pc[c] = "await" /\ pc'[c] = "done") =>
                  /\ cacheWrites' = cacheWrites + 1
                  /\ postsCache' = Some(ret'[c])]_vars

\* two callers raced on the empty cache; each drained the three pages of
\* the remote and each wrote the cache
C14_Witness ==
    /\ Len(remote) = 3
    /\ ColdDone(1)
    /\ ColdDone(2)
    /\ Len(reqLog[1]) = 3
    /\ Len(reqLog[2]) = 3
    /\ fetchCount = 6
    /\ cacheWrites = 2

--------------------------------------------------------------------------
(* Isolation of interleaved drains, checked under SpecDrain *)

\* the pages of the remote sequence caller c's drain reads
SourceOf(c) ==
    IF op[c] = "getAllPosts" THEN remote ELSE children[arg[c].blockId]

\* the number of caller c's requests that have been answered
Answered(c) == IF pc[c] = "done" THEN Len(reqLog[c]) ELSE Len(respLog[c])

\* the pages caller c has fetched itself, in the order it fetched them
OwnPages(c) ==
    [i \in 1..Answered(c) |->
        SourceOf(c)[IF reqLog[c][i] = NoCursor THEN 1 ELSE reqLog[c][i]]]

\* C15: drain isolation under interleaving.  However getAllPosts and
\* getAllBlocksByBlockId calls interleave at their page fetches, the
\* accumulator of a call holds exactly the pages that call has fetched
\* itself, in order, nothing of another call and nothing lost or repeated;
\* the collection it returns is built from that; and every cursor it sends
\* is the one its own previous response carried.
C15_DrainIsolation ==
    \A c \in Callers :
        Draining(c) =>
            /\ results[c] = Flatten(OwnPages(c))
            /\ cursor[c] = reqLog[c][Len(reqLog[c])]
            /\ \A i \in 2..Len(reqLog[c]) :
                  \A last \in LastCursors :
                      reqLog[c][i] =
                          PageResponse(SourceOf(c), reqLog[c][i - 1], last).next_cursor
            /\ (pc[c] = "done" /\ op[c] = "getAllPosts") =>
                  ret[c] = BuildAll(Flatten(OwnPages(c)))
            /\ (pc[c] = "done" /\ op[c] = "getAllBlocksByBlockId") =>
                  ret[c] = BuildBlocks(Flatten(OwnPages(c)))

\* a child listing and a database query are both in the middle of their
\* drains, each with records accumulated and a further request pending
C15_Witness ==
    \E c, d \in Callers :
        /\ op[c] = "getAllBlocksByBlockId" /\ pc[c] = "await"
        /\ op[d] = "getAllPosts" /\ pc[d] = "await" /\ ~hit[d]
        /\ Len(reqLog[c]) = 3 /\ Len(results[c]) = 1
        /\ Len(reqLog[d]) = 2 /\ Len(results[d]) = 1
        /\ cursor[c] # cursor[d]

--------------------------------------------------------------------------
(* The child-content fetch, checked under SpecDrain *)

\* caller c's getAllBlocksByBlockId has returned
BlocksDone(c) == op[c] = "getAllBlocksByBlockId" /\ pc[c] = "done"

\* C20: child-content fetch.  A getAllBlocksByBlockId call that returns has
\* drained the child listing itself, one request per page, and returns one
\* Block per child record in the remote's order, each with the record's Id,
\* Type and HasChildren and with its payload under the key equal to its Type
\* and under no other key.  Every call starts a fresh drain whatever the
\* caches hold, and no step of the operation, its failure included, changes
\* postsCache or dbCache.
C20_ChildContentFetch ==
    /\ [](\A c \in Callers :
            BlocksDone(c) =>
                LET pages == children[arg[c].blockId]
                    kids == Flatten(pages)
                IN  /\ ~hit[c]
                    /\ Len(reqLog[c]) = Len(pages)
                    /\ Len(ret[c]) = Len(kids)
                    /\ \A i \in 1..Len(kids) :
                          /\ DOMAIN ret[c][i] =
                                {"Id", "Type", "HasChildren", kids[i].type}
                          /\ ret[c][i].Id = kids[i].id
                          /\ ret[c][i].Type = kids[i].type
                          /\ ret[c][i].HasChildren = kids[i].has_children
                          /\ ret[c][i][kids[i].type] = kids[i][kids[i].type])
    /\ [][\A c \in Callers :
            (/\ op'[c] = "getAllBlocksByBlockId"
             /\ <<op[c], pc[c], reqLog[c], results[c]>>
                    # <<op'[c], pc'[c], reqLog'[c], results'[c]>>) =>
                /\ UNCHANGED <<postsCache, dbCache>>
                /\ pc[c] # "await" =>
                      /\ pc'[c] = "await"
                      /\ reqLog'[c] = <<NoCursor>>
                      /\ results'[c] = <<>>]_vars

\* with the post cache populated, a listing of three children on three
\* pages, one of them empty, has been drained and returned, and another
\* listing has failed
C20_Witness ==
    \E c, d \in Callers :
        /\ postsCache # Null
        /\ BlocksDone(c)
        /\ arg[c].blockId = "b1"
        /\ Len(ret[c]) = 3
        /\ ret[c][2].Type = "heading_1"
        /\ "heading_1" \in DOMAIN ret[c][2]
        /\ Len(reqLog[c]) = 3
        /\ op[d] = "getAllBlocksByBlockId" /\ pc[d] = "failed"

--------------------------------------------------------------------------
(* Properties of the two cache slots, checked under SpecDb *)

\* the step changes something of caller c's call
StepOf(c) ==
    <<op[c], pc[c], attempts[c], cursor[c], results[c], ret[c], reqLog[c], hit[c]>>
        # <<op'[c], pc'[c], attempts'[c], cursor'[c], results'[c], ret'[c],
            reqLog'[c], hit'[c]>>

\* C16: independent cache slots.  Every step of a getDatabase call, its
\* success, a retry or its failure, leaves postsCache unchanged; every step
\* of getAllPosts and of the view functions built on it leaves dbCache
\* unchanged; a step that changes no call's state (a repeated cache hit)
\* changes neither slot.
C16_IndependentSlots ==
    [][/\ \A c \in Callers :
            /\ (StepOf(c) /\ op'[c] = "getDatabase") => postsCache' = postsCache
            /\ (StepOf(c) /\ op'[c] \in PostOps) => dbCache' = dbCache
       /\ (\A c \in Callers : ~StepOf(c)) => UNCHANGED <<postsCache, dbCache>>]_vars

\* the post cache was populated by one caller while the getDatabase call of
\* another used up its retries and failed: one slot is filled, the other is
\* still empty
C16_Witness ==
    \E c, d \in Callers :
        /\ op[c] = "getDatabase" /\ pc[c] = "failed" /\ attempts[c] = 2
        /\ op[d] \in PostOps /\ pc[d] = "done" /\ ~hit[d]
        /\ postsCache # Null
        /\ dbCache = Null

\* caller c's step belongs to a getDatabase call
DbStep(c) == StepOf(c) /\ op'[c] = "getDatabase"

\* C17: database-metadata cache lifecycle.  A getDatabase call that finds
\* dbCache empty sends the retrieve at most 1 + 2 = 3 times, and fails only
\* when all three were rejected, leaving dbCache null, so that a later call
\* sends the retrieve again.  The step in which an attempt succeeds is the
\* one step of the call that sets dbCache, to the normalized metadata, which
\* the call returns.  A call that finds dbCache populated returns its
\* contents and sends nothing.  A populated dbCache never changes.
C17_DatabaseCacheLifecycle ==
    /\ [](\A c \in Callers :
            op[c] = "getDatabase" =>
                /\ attempts[c] + 1 <= 3
                /\ pc[c] = "failed" => attempts[c] + 1 = 3
                /\ (pc[c] = "done" /\ ~hit[c]) => dbCache = Some(ret[c]))
    /\ [](dbCache # Null => dbCache = Some(BuildDatabase(dbRaw)))
    /\ [][/\ dbCache # Null => dbCache' = dbCache
          /\ \A c \in Callers :
               DbStep(c) =>
                 /\ (pc[c] # "await" /\ dbCache # Null) =>
                       /\ pc'[c] = "done"
                       /\ ret'[c] = dbCache.v
                       /\ retrieveCount' = retrieveCount
                 /\ (pc[c] # "await" /\ dbCache = Null) =>
                       /\ pc'[c] = "await"
                       /\ attempts'[c] = 0
                       /\ retrieveCount' = retrieveCount + 1
                       /\ dbCache' = Null
                 /\ (pc[c] = "await" /\ pc'[c] = "await") =>
                       /\ attempts'[c] = attempts[c] + 1
                       /\ retrieveCount' = retrieveCount + 1
                       /\ dbCache' = dbCache
                 /\ (pc[c] = "await" /\ pc'[c] = "failed") =>
                       /\ retrieveCount' = retrieveCount
                       /\ dbCache' = dbCache
                 /\ (pc[c] = "await" /\ pc'[c] = "done") =>
                       /\ retrieveCount' = retrieveCount
                       /\ dbCache' = Some(BuildDatabase(dbRaw))
                       /\ ret'[c] = dbCache'.v]_vars

\* a call failed after three attempts, the next call succeeded at its first
\* attempt and populated dbCache, and a later call by another caller was
\* answered from dbCache: four retrieves in all
C17_Witness ==
    /\ op[1] = "getDatabase" /\ pc[1] = "done" /\ ~hit[1] /\ attempts[1] = 0
    /\ op[2] = "getDatabase" /\ pc[2] = "done" /\ hit[2]
    /\ ret[2] = ret[1]
    /\ dbCache = Some(ret[2])
    /\ dbCache.v.Icon # Null
    /\ retrieveCount = 4

--------------------------------------------------------------------------
(* Purity of the view functions, checked under SpecView *)

\* the view functions: the exported functions built on getAllPosts
ViewOps == PostOps \ {"getAllPosts"}

\* C18: the view operations are read-only.  Once postsCache is populated,
\* every call of a view function returns at once, leaves postsCache as it
\* is, the order of its elements included (the sorts of getRankedPosts and
\* getAllTags work on copies), and sends no request to the remote; a call
\* that repeats the previous one with the same arguments returns the same
\* result.
C18_ViewsReadOnly ==
    [][(postsCache # Null /\ ncalls' # ncalls /\ op'[1] \in ViewOps) =>
          /\ postsCache' = postsCache
          /\ fetchCount' = fetchCount
          /\ cacheWrites' = cacheWrites
          /\ pc'[1] = "done"
          /\ (pc[1] = "done" /\ op'[1] = op[1] /\ arg'[1] = arg[1]) =>
                ret'[1] = ret[1]]_vars

\* the third call is a rank listing answered from a cached collection that
\* is not in rank order: the listing is sorted, the cache still has its
\* order, and the drain of the first call was the only fetching
C18_Witness ==
    /\ ViewDone("getRankedPosts")
    /\ hit[1]
    /\ ncalls = 3
    /\ Len(postsCache.v) = 3
    /\ postsCache.v[1].Rank < postsCache.v[2].Rank
    /\ postsCache.v[3].Rank = 0
    /\ Len(ret[1]) = 2
    /\ ret[1][1] = postsCache.v[2]
    /\ fetchCount = Len(remote)

--------------------------------------------------------------------------
(* Termination of the drain, checked under SpecLive *)

\* the index of the page a request with start cursor cur asks for
PageIndex(cur) == IF cur = NoCursor THEN 1 ELSE cur

\* C19: drain termination.  When every page fetch succeeds, a getAllPosts
\* call that started on an empty cache eventually returns and postsCache is
\* populated; it has then sent exactly as many requests as the remote has
\* pages; and the response to the request for the last page, the first one
\* with has_more = false, ends the call whatever next_cursor it carries: no
\* further request is sent and the cursor is not taken.
C19_DrainTermination ==
    /\ \A c \in Callers :
          (pc[c] = "await") ~> (pc[c] = "done" /\ ~hit[c] /\ postsCache # Null)
    /\ [](\A c \in Callers :
            /\ ColdDone(c) => Len(reqLog[c]) = Len(remote)
            /\ pc[c] = "await" => Len(reqLog[c]) <= Len(remote))
    /\ [][\A c \in Callers :
            (/\ pc[c] = "await"
             /\ PageIndex(cursor[c]) = Len(remote)
             /\ <<pc[c], results[c]>> # <<pc'[c], results'[c]>>) =>
                /\ pc'[c] = "done"
                /\ cursor'[c] = cursor[c]
                /\ fetchCount' = fetchCount
                /\ postsCache' # Null]_vars

\* a drain of three pages has returned after three requests
C19_Witness ==
    \E c \in Callers :
        /\ ColdDone(c)
        /\ Len(remote) = 3
        /\ reqLog[c] = <<NoCursor, 2, 3>>
        /\ postsCache = Some(ret[c])

====
